---------------------------- MODULE Spec2Model ----------------------------
(***************************************************************************)
(* A model of skein/model.py: the entities Resources, File, Service, Job,  *)
(* ResourceUsageReport and ApplicationReport, their validation, and their  *)
(* conversions from and to mappings and wire messages.                     *)
(*                                                                         *)
(* Python values are tagged records: the field k names the Python type.    *)
(* A call that raises is modelled by its result being an error record.     *)
(*                                                                         *)
(* Abstractions: an error record keeps the exception type, the fixed part  *)
(* of the message, the field and the keys it names; where several entries  *)
(* of a dict fail, which one raises first follows the dict's iteration     *)
(* order and is left open; instants are in UTC and whole milliseconds;     *)
(* the wire's 32-bit float is exact; a source is split as urlparse does    *)
(* (scheme, host, query, fragment) without ';' parameters.                 *)
(***************************************************************************)
EXTENDS Integers, Sequences, FiniteSets, TLC

VARIABLES op, ctor, input, obj, out, back, writes

vars == <<op, ctor, input, obj, out, back, writes>>

(***************************** Python values *******************************)
None == [k |-> "none"]
Nil == [k |-> "nil"]
I(n) == [k |-> "int", i |-> n]
S(s) == [k |-> "str", s |-> s]
P(c) == [k |-> "str", c |-> c]
F(x) == [k |-> "float", f |-> x]
D(f) == [k |-> "dict", d |-> f]
L(l) == [k |-> "list", l |-> l]
EmptyMap == [x \in {} |-> None]

\* model.py:17  the marker of a parameter the caller must supply
required == [k |-> "required"]

Ok == [k |-> "ok"]
Error(type, msg, field, keys) ==
    [k |-> "error", err |-> type, msg |-> msg, field |-> field, keys |-> keys]
IsErr(r) == r.k = "error"

\* Body of the value of v, v being evaluated once (a local variable)
Let(v, Body(_)) == CHOOSE r \in {Body(x) : x \in {v}} : TRUE

\* the statements that follow a call: skipped when the call raised
Try(v, Body(_)) == Let(v, LAMBDA x : IF IsErr(x) THEN x ELSE Body(x))

\* the first error of a sequence of check results, in the order the code runs them
First(checks) ==
    Let(checks, LAMBDA cs :
        IF \E i \in DOMAIN cs : IsErr(cs[i])
        THEN cs[CHOOSE i \in DOMAIN cs :
                    IsErr(cs[i]) /\ \A j \in 1..(i - 1) : ~IsErr(cs[j])]
        ELSE Ok)

\* the error of the first failing entry of a dict iterated by a loop or a
\* comprehension (one iteration order is fixed by the choice)
FirstIn(results) ==
    Let(results, LAMBDA rs :
        IF \E x \in DOMAIN rs : IsErr(rs[x])
        THEN rs[CHOOSE x \in DOMAIN rs : IsErr(rs[x])]
        ELSE Ok)

\* a dict or list built by a comprehension whose element calls may raise
Collect(results, Wrap(_)) ==
    Let(results, LAMBDA rs : Try(FirstIn(rs), LAMBDA ok : Wrap(rs)))

\* the mapping of the keys of f and g, f's value where both have the key
Merge(f, g) == [x \in DOMAIN f \cup DOMAIN g |-> IF x \in DOMAIN f THEN f[x] ELSE g[x]]

\* model.py:28
_if_none(x, y) == Let(x, LAMBDA v : IF v # None THEN v ELSE y)

\* obj.get(key, default) on a dict
Get(m, key, default) == IF key \in DOMAIN m THEN m[key] ELSE default

\* obj[key] on a dict, a KeyError when absent
Item(m, key) ==
    IF key \in DOMAIN m THEN m[key] ELSE Error("KeyError", "missing key", key, {})

\* max(0, x) on an int
Max0(x) == IF x.k = "int" /\ x.i < 0 THEN I(0) ELSE x

\* model.py:32
is_list_of(x, typ) ==
    x.k = "list" /\ \A i \in DOMAIN x.l : x.l[i].k = typ

\* model.py:36
is_dict_of(x, ktyp, vtyp) ==
    x.k = "dict" /\ \A key \in DOMAIN x.d : x.d[key].k = vtyp

(************************** validation primitives **************************)
\* a key check that takes the difference the other way round and so looks
\* for missing keys: the unknown keys of a mapping pass it
_check_keys_missing(cls, o, keys) ==
    IF o.k # "dict"
    THEN Error("TypeError", "Expected mapping", cls, {})
    ELSE LET extra == keys \ DOMAIN o.d
         IN  IF extra # {}
             THEN Error("ValueError", "Unknown extra keys", cls, extra)
             ELSE Ok

\* model.py:79
_check_keys(cls, o, keys) ==
    IF o.k # "dict"
    THEN Error("TypeError", "Expected mapping", cls, {})
    ELSE LET extra == DOMAIN o.d \ keys
         IN  IF extra # {}
             THEN Error("ValueError", "Unknown extra keys", cls, extra)
             ELSE Ok

\* model.py:88
_check_required(self, slots) ==
    First([i \in DOMAIN slots |->
             IF self[slots[i]] = required
             THEN Error("TypeError", "parameter is required", slots[i], {})
             ELSE Ok])

\* model.py:94
_check_in_set(self, field, values) ==
    IF self[field] \notin values
    THEN Error("ValueError", "must be in", field, {})
    ELSE Ok

\* model.py:98
_check_is_type(self, field, type, nullable) ==
    IF ~(self[field].k = type \/ (nullable /\ self[field] = None))
    THEN Error("TypeError", "must be an instance of", field, {})
    ELSE Ok

\* model.py:107
_check_is_list_of(self, field, type, nullable) ==
    IF ~(is_list_of(self[field], type) \/ (nullable /\ self[field] = None))
    THEN Error("TypeError", "must be a list of", field, {})
    ELSE Ok

\* model.py:116
_check_is_dict_of(self, field, key, val, nullable) ==
    IF ~(is_dict_of(self[field], key, val) \/ (nullable /\ self[field] = None))
    THEN Error("TypeError", "must be a dict of", field, {})
    ELSE Ok

\* model.py:125
_check_is_bounded_int(self, field, min, nullable) ==
    LET x == self[field]
    IN  First(<<_check_is_type(self, field, "int", nullable),
                IF x.k = "int" /\ x.i < min
                THEN Error("ValueError", "must be >=", field, {})
                ELSE Ok>>)

\* the constructors' tail: the checks, then the instance
Construct(self, checks) == Try(First(checks), LAMBDA ok : self)

(******************************** Resources ********************************)
ResourcesSlots == <<"memory", "vcores">>

\* model.py:252
ResourcesValidate(self, is_request) ==
    LET min == IF is_request THEN 1 ELSE 0
    IN  First(<<_check_is_bounded_int(self, "vcores", min, FALSE),
                _check_is_bounded_int(self, "memory", min, FALSE)>>)

\* model.py:242
ResourcesInit(memory, vcores) ==
    Let([k |-> "Resources", memory |-> memory, vcores |-> vcores], LAMBDA self :
        Construct(self, <<_check_required(self, ResourcesSlots),
                          ResourcesValidate(self, FALSE)>>))

\* model.py:141 (Base.from_dict as Resources inherits it)
ResourcesFromDict(o) ==
    Try(_check_keys("Resources", o, {"memory", "vcores"}), LAMBDA ok :
        ResourcesInit(Get(o.d, "memory", required), Get(o.d, "vcores", required)))

(********************************** File ***********************************)
FileSlots == <<"source", "type", "visibility", "size", "timestamp">>

FileTypes == {S("FILE"), S("ARCHIVE")}
FileVisibilities == {S("APPLICATION"), S("PUBLIC"), S("PRIVATE")}

\* model.py:296
FileValidate(self) ==
    First(<<_check_is_type(self, "source", "str", FALSE),
            _check_in_set(self, "type", FileTypes),
            _check_in_set(self, "visibility", FileVisibilities),
            _check_is_bounded_int(self, "size", 0, FALSE),
            _check_is_bounded_int(self, "timestamp", 0, FALSE)>>)

\* model.py:282
FileInit(source, type, visibility, size, timestamp) ==
    Let([k |-> "File", source |-> source, type |-> type,
         visibility |-> visibility, size |-> size, timestamp |-> timestamp],
        LAMBDA self :
            Construct(self, <<_check_required(self, FileSlots), FileValidate(self)>>))

\* model.py:141 (Base.from_dict as File inherits it)
FileFromDict(o) ==
    Try(_check_keys("File", o, {"source", "type", "visibility", "size", "timestamp"}),
        LAMBDA ok :
            FileInit(Get(o.d, "source", required),
                     Get(o.d, "type", S("FILE")),
                     Get(o.d, "visibility", S("APPLICATION")),
                     Get(o.d, "size", I(0)),
                     Get(o.d, "timestamp", I(0))))

(* Strings that the code takes apart are sequences of characters. *)
SchemeChars == {"a", "b", "d", "e", "f", "g", "h", "i", "l", "p", "r", "s",
                "t", "x", "z"}

Drop(s, n) == SubSeq(s, n + 1, Len(s))
Take(s, n) == SubSeq(s, 1, n)

\* the position of the first character of s that is in cs, Len(s) + 1 if none
FindFirst(s, cs) ==
    IF \E i \in 1..Len(s) : s[i] \in cs
    THEN CHOOSE i \in 1..Len(s) : s[i] \in cs /\ \A j \in 1..(i - 1) : s[j] \notin cs
    ELSE Len(s) + 1

\* the position of the last "/" of s, 0 if none (str.rfind('/') + 1)
RFindSlash(s) ==
    IF \E i \in 1..Len(s) : s[i] = "/"
    THEN CHOOSE i \in 1..Len(s) : s[i] = "/" /\ \A j \in (i + 1)..Len(s) : s[j] # "/"
    ELSE 0

\* str.endswith
EndsWith(s, ext) ==
    Len(s) >= Len(ext) /\ SubSeq(s, Len(s) - Len(ext) + 1, Len(s)) = ext

\* urlparse(source).path: the scheme, the //netloc, the #fragment and the ?query
\* are split off, in that order; what is left is the path
\* the scheme and its colon cut off the front, when there is a scheme
SplitScheme(s) ==
    Let(FindFirst(s, {":"}), LAMBDA colon :
        IF /\ colon <= Len(s)
           /\ colon > 1
           /\ \A j \in 1..(colon - 1) : s[j] \in SchemeChars
        THEN Drop(s, colon) ELSE s)

\* the // and the host cut off the front, when they are there
SplitNetloc(s) ==
    IF Len(s) >= 2 /\ Take(s, 2) = <<"/", "/">>
    THEN Drop(s, FindFirst(Drop(s, 2), {"/", "?", "#"}) + 1)
    ELSE s

UrlPath(s) ==
    Let(SplitScheme(s), LAMBDA r1 :
    Let(SplitNetloc(r1), LAMBDA r2 :
    Let(Take(r2, FindFirst(r2, {"#"}) - 1), LAMBDA r3 :
        Take(r3, FindFirst(r3, {"?"}) - 1))))

\* os.path.split(path)[1]: what follows the last "/"
PathName(s) == Drop(s, RFindSlash(s))

ArchiveExts == << <<".", "z", "i", "p">>,
                  <<".", "t", "a", "r", ".", "g", "z">>,
                  <<".", "t", "g", "z">> >>

\* a derivation that strips the archive extension whatever the type
DestOfAnyType(name, type) ==
    IF \E i \in 1..Len(ArchiveExts) : EndsWith(name, ArchiveExts[i])
    THEN LET i == CHOOSE i \in 1..Len(ArchiveExts) :
                      /\ EndsWith(name, ArchiveExts[i])
                      /\ \A j \in 1..(i - 1) : ~EndsWith(name, ArchiveExts[j])
         IN  Take(name, Len(name) - Len(ArchiveExts[i]))
    ELSE name

\* model.py:345  dest from the name: the first extension of the list that the
\* name ends with is cut off an archive's name
DestOf(name, type) ==
    IF type = S("ARCHIVE") /\ \E i \in 1..Len(ArchiveExts) : EndsWith(name, ArchiveExts[i])
    THEN LET i == CHOOSE i \in 1..Len(ArchiveExts) :
                      /\ EndsWith(name, ArchiveExts[i])
                      /\ \A j \in 1..(i - 1) : ~EndsWith(name, ArchiveExts[j])
         IN  Take(name, Len(name) - Len(ArchiveExts[i]))
    ELSE name

\* str.upper on the type names that occur
Upper(s) ==
    IF s.k # "str" THEN Error("AttributeError", "no attribute upper", "type", {})
    ELSE CASE s.s = "file" -> S("FILE")
           [] s.s = "archive" -> S("ARCHIVE")
           [] OTHER -> s

\* model.py:316  the result is the pair [dest, file] or an error
\* model.py:339  without a dest, source is rebound to the path of the URL and
\* the File is built of that path; model.py:341  name is a str, never None,
\* so the error for directories is never raised
_parse_file_spec(o) ==
    IF o.k # "dict" THEN Error("TypeError", "Expected mapping", "File", {})
    ELSE IF "file" \in DOMAIN o.d /\ "archive" \in DOMAIN o.d
    THEN Error("ValueError", "Both 'archive' and 'file' specified", "File", {})
    ELSE
    LET short == IF "file" \in DOMAIN o.d THEN "file"
                 ELSE IF "archive" \in DOMAIN o.d THEN "archive" ELSE "none"
        chk == IF short = "none"
               THEN _check_keys("File", o, {"source", "type", "visibility", "size",
                                            "timestamp", "dest"})
               ELSE _check_keys("File", o, {"visibility", "size", "timestamp",
                                            short, "dest"})
        source == IF short = "none" THEN Item(o.d, "source") ELSE o.d[short]
        type == IF short = "none" THEN Upper(Get(o.d, "type", S("FILE")))
                ELSE Upper(S(short))
        derived == "dest" \notin DOMAIN o.d
    IN  Try(chk, LAMBDA ok :
        Try(source, LAMBDA src :
        Try(type, LAMBDA ty :
        Let(IF derived THEN UrlPath(src.c) ELSE <<>>, LAMBDA path :
        Let(IF derived THEN P(DestOf(PathName(path), ty)) ELSE o.d["dest"], LAMBDA dest :
        Try(FileInit(IF derived THEN P(path) ELSE src, ty,
                     Get(o.d, "visibility", S("APPLICATION")),
                     Get(o.d, "size", I(0)),
                     Get(o.d, "timestamp", I(0))),
            LAMBDA resource : [k |-> "pair", dest |-> dest, file |-> resource]))))))

(********************************* Service *********************************)
ServiceSlots == <<"commands", "resources", "instances", "files", "env", "depends">>

\* a validation that checks the resources in their report role
ServiceValidateAsReport(self) ==
    First(<<_check_is_bounded_int(self, "instances", 0, FALSE),
            _check_is_type(self, "resources", "Resources", FALSE),
            IF self.resources.k = "Resources"
            THEN ResourcesValidate(self.resources, FALSE) ELSE Ok,
            _check_is_dict_of(self, "files", "str", "File", FALSE),
            IF is_dict_of(self.files, "str", "File")
            THEN FirstIn([d \in DOMAIN self.files.d |-> FileValidate(self.files.d[d])])
            ELSE Ok,
            _check_is_dict_of(self, "env", "str", "str", FALSE),
            _check_is_list_of(self, "commands", "str", FALSE),
            IF self.commands.k = "list" /\ Len(self.commands.l) = 0
            THEN Error("ValueError", "There must be at least one command", "commands", {})
            ELSE Ok,
            _check_is_list_of(self, "depends", "str", FALSE)>>)

\* a validation that accepts a list of no commands
ServiceValidateAnyCommands(self) ==
    First(<<_check_is_bounded_int(self, "instances", 0, FALSE),
            _check_is_type(self, "resources", "Resources", FALSE),
            IF self.resources.k = "Resources"
            THEN ResourcesValidate(self.resources, TRUE) ELSE Ok,
            _check_is_dict_of(self, "files", "str", "File", FALSE),
            IF is_dict_of(self.files, "str", "File")
            THEN FirstIn([d \in DOMAIN self.files.d |-> FileValidate(self.files.d[d])])
            ELSE Ok,
            _check_is_dict_of(self, "env", "str", "str", FALSE),
            _check_is_list_of(self, "commands", "str", FALSE),
            _check_is_list_of(self, "depends", "str", FALSE)>>)

\* model.py:406
ServiceValidate(self) ==
    First(<<_check_is_bounded_int(self, "instances", 0, FALSE),
            _check_is_type(self, "resources", "Resources", FALSE),
            IF self.resources.k = "Resources"
            THEN ResourcesValidate(self.resources, TRUE) ELSE Ok,
            _check_is_dict_of(self, "files", "str", "File", FALSE),
            IF is_dict_of(self.files, "str", "File")
            THEN FirstIn([d \in DOMAIN self.files.d |-> FileValidate(self.files.d[d])])
            ELSE Ok,
            _check_is_dict_of(self, "env", "str", "str", FALSE),
            _check_is_list_of(self, "commands", "str", FALSE),
            IF self.commands.k = "list" /\ Len(self.commands.l) = 0
            THEN Error("ValueError", "There must be at least one command", "commands", {})
            ELSE Ok,
            _check_is_list_of(self, "depends", "str", FALSE)>>)

\* model.py:391
ServiceInit(commands, resources, instances, files, env, depends) ==
    Let([k |-> "Service", commands |-> commands, resources |-> resources,
         instances |-> instances,
         files |-> _if_none(files, D(EmptyMap)),
         env |-> _if_none(env, D(EmptyMap)),
         depends |-> _if_none(depends, L(<<>>))],
        LAMBDA self :
            Construct(self, <<_check_required(self, ServiceSlots),
                              ServiceValidate(self)>>))

\* dict(pairs): a later pair replaces an earlier one of the same dest
DictOfPairs(pairs) ==
    [d \in {pairs[i].dest.c : i \in DOMAIN pairs} |->
        pairs[CHOOSE i \in DOMAIN pairs :
                  /\ pairs[i].dest.c = d
                  /\ \A j \in DOMAIN pairs : pairs[j].dest.c = d => j <= i].file]

\* model.py:433  the files of a Service mapping: a list of file specs, a dict
\* of File mappings, or anything else, which is left as it is
ServiceFiles(files) ==
    IF files.k = "list"
    THEN Let([i \in DOMAIN files.l |-> _parse_file_spec(files.l[i])], LAMBDA pairs :
             Try(First(pairs), LAMBDA ok : D(DictOfPairs(pairs))))
    ELSE IF files.k = "dict"
    THEN Collect([d \in DOMAIN files.d |-> FileFromDict(files.d[d])], D)
    ELSE files

\* model.py:426
ServiceFromDict(o) ==
    LET chk == _check_keys("Service", o, {"commands", "resources", "instances",
                                          "files", "env", "depends"})
        r0 == Get(o.d, "resources", None)
    IN  Try(chk, LAMBDA ok :
        Try(IF r0 # None THEN ResourcesFromDict(r0) ELSE r0, LAMBDA resources :
        Try(ServiceFiles(Get(o.d, "files", None)), LAMBDA files :
            ServiceInit(Get(o.d, "commands", None), resources,
                        Get(o.d, "instances", I(1)), files,
                        Get(o.d, "env", None), Get(o.d, "depends", None)))))

(*********************************** Job ***********************************)
JobSlots == <<"name", "queue", "services">>

\* model.py:492
JobValidate(self) ==
    First(<<_check_is_type(self, "name", "str", FALSE),
            _check_is_type(self, "queue", "str", TRUE),
            _check_is_dict_of(self, "services", "str", "Service", FALSE),
            IF self.services.k = "dict" /\ DOMAIN self.services.d = {}
            THEN Error("ValueError", "There must be at least one service", "services", {})
            ELSE Ok,
            IF is_dict_of(self.services, "str", "Service")
            THEN FirstIn([n \in DOMAIN self.services.d |->
                            ServiceValidate(self.services.d[n])])
            ELSE Ok>>)

\* model.py:481
JobInit(services, name, queue) ==
    Let([k |-> "Job", name |-> name, queue |-> queue, services |-> services],
        LAMBDA self :
            Construct(self, <<_check_required(self, JobSlots), JobValidate(self)>>))

\* model.py:503
JobFromDict(o) ==
    LET chk == _check_keys("Job", o, {"name", "queue", "services"})
        s0 == Get(o.d, "services", None)
    IN  Try(chk, LAMBDA ok :
        Try(IF s0.k = "dict"
            THEN Collect([n \in DOMAIN s0.d |-> ServiceFromDict(s0.d[n])], D)
            ELSE s0,
            LAMBDA services :
                JobInit(services, Get(o.d, "name", None), Get(o.d, "queue", None))))

(*************************** ResourceUsageReport ***************************)
UsageSlots == <<"memory_seconds", "vcore_seconds", "num_used_containers",
                "needed_resources", "reserved_resources", "used_resources">>

\* model.py:525  on the field names of the two report classes
_to_camel_case(x) ==
    CASE x = "memory_seconds" -> "memorySeconds"
      [] x = "vcore_seconds" -> "vcoreSeconds"
      [] x = "num_used_containers" -> "numUsedContainers"
      [] x = "needed_resources" -> "neededResources"
      [] x = "reserved_resources" -> "reservedResources"
      [] x = "used_resources" -> "usedResources"
      [] x = "tracking_url" -> "trackingUrl"
      [] x = "final_status" -> "finalStatus"
      [] x = "start_time" -> "startTime"
      [] x = "finish_time" -> "finishTime"
      [] OTHER -> x

\* model.py:535, 590  _keys
CamelKeys(slots) == {_to_camel_case(slots[i]) : i \in DOMAIN slots}

\* model.py:551
UsageValidate(self) ==
    First(<<_check_is_bounded_int(self, "memory_seconds", 0, FALSE),
            _check_is_bounded_int(self, "vcore_seconds", 0, FALSE),
            _check_is_bounded_int(self, "num_used_containers", 0, FALSE),
            _check_is_type(self, "needed_resources", "Resources", FALSE),
            IF self.needed_resources.k = "Resources"
            THEN ResourcesValidate(self.needed_resources, FALSE) ELSE Ok,
            _check_is_type(self, "reserved_resources", "Resources", FALSE),
            IF self.reserved_resources.k = "Resources"
            THEN ResourcesValidate(self.reserved_resources, FALSE) ELSE Ok,
            _check_is_type(self, "used_resources", "Resources", FALSE),
            IF self.used_resources.k = "Resources"
            THEN ResourcesValidate(self.used_resources, FALSE) ELSE Ok>>)

\* model.py:537
UsageInit(memory_seconds, vcore_seconds, num_used_containers, needed_resources, reserved_resources, used_resources) ==
    Let([k |-> "ResourceUsageReport", memory_seconds |-> memory_seconds,
         vcore_seconds |-> vcore_seconds,
         num_used_containers |-> num_used_containers,
         needed_resources |-> needed_resources,
         reserved_resources |-> reserved_resources,
         used_resources |-> used_resources],
        LAMBDA self : Construct(self, <<UsageValidate(self)>>))

\* model.py:568  Resources(vcores=max(0, val['vcores']), memory=max(0, val['memory']))
UsageResources(val) ==
    IF IsErr(val) THEN val
    ELSE IF val.k # "dict"
    THEN Error("TypeError", "object is not subscriptable", "", {})
    ELSE Try(Item(val.d, "vcores"), LAMBDA vcores :
         Try(Item(val.d, "memory"), LAMBDA memory :
             ResourcesInit(Max0(memory), Max0(vcores))))

\* model.py:560
UsageFromDict(o) ==
    Try(_check_keys("ResourceUsageReport", o, CamelKeys(UsageSlots)), LAMBDA ok :
    Let(<<Item(o.d, "memorySeconds"),
          Item(o.d, "vcoreSeconds"),
          Item(o.d, "numUsedContainers"),
          UsageResources(Item(o.d, "neededResources")),
          UsageResources(Item(o.d, "reservedResources")),
          UsageResources(Item(o.d, "usedResources"))>>, LAMBDA args :
    Try(First(args), LAMBDA ok2 :
        UsageInit(args[1], args[2], Max0(args[3]), args[4], args[5], args[6]))))

(**************************** ApplicationReport ****************************)
ReportSlots == <<"id", "name", "user", "queue", "tags", "host", "port",
                 "tracking_url", "state", "final_status", "progress", "usage",
                 "diagnostics", "start_time", "finish_time">>

\* model.py:24  the instant x milliseconds after the epoch, as whole seconds
\* and microseconds; timedelta(milliseconds=x) takes numbers only
_datetime_from_millis(x) ==
    IF x.k # "int"
    THEN Error("TypeError", "unsupported type for timedelta milliseconds", "", {})
    ELSE [k |-> "datetime", s |-> x.i \div 1000, us |-> (x.i % 1000) * 1000]

\* model.py:50  int(x.timestamp() * 1000), read in a process whose zone is UTC
MillisOf(x) == I(x.s * 1000 + x.us \div 1000)

\* model.py:616
ReportValidate(self) ==
    First(<<_check_is_type(self, "id", "str", FALSE),
            _check_is_type(self, "name", "str", FALSE),
            _check_is_type(self, "user", "str", FALSE),
            _check_is_type(self, "queue", "str", FALSE),
            _check_is_list_of(self, "tags", "str", FALSE),
            _check_is_type(self, "host", "str", TRUE),
            _check_is_type(self, "port", "int", TRUE),
            _check_is_type(self, "tracking_url", "str", TRUE),
            _check_is_type(self, "state", "str", FALSE),
            _check_is_type(self, "final_status", "str", FALSE),
            _check_is_type(self, "progress", "float", FALSE),
            _check_is_type(self, "usage", "ResourceUsageReport", FALSE),
            IF self.usage.k = "ResourceUsageReport"
            THEN UsageValidate(self.usage) ELSE Ok,
            _check_is_type(self, "diagnostics", "str", TRUE),
            _check_is_type(self, "start_time", "datetime", FALSE),
            _check_is_type(self, "finish_time", "datetime", FALSE)>>)

\* model.py:592
ReportInit(kw) ==
    Let(Merge([k |-> "ApplicationReport"], kw),
        LAMBDA self : Construct(self, <<ReportValidate(self)>>))

\* model.py:636
ReportFromDict(o) ==
    LET chk == _check_keys("ApplicationReport", o, CamelKeys(ReportSlots))
    IN  Try(chk, LAMBDA ok :
        Let([f \in {ReportSlots[i] : i \in DOMAIN ReportSlots} |->
               Get(o.d, _to_camel_case(f), None)], LAMBDA kw :
        Try(UsageFromDict(kw.usage), LAMBDA usage :
        Try(_datetime_from_millis(kw.start_time), LAMBDA start :
        Try(_datetime_from_millis(kw.finish_time), LAMBDA finish :
            ReportInit([kw EXCEPT !.usage = usage, !.start_time = start,
                                  !.finish_time = finish]))))))

(****************************** wire messages ******************************)
(* The message classes of skein.proto are not part of model.py.  A message *)
(* is a record whose k is "pb." and the class name; a field holds a value  *)
(* of its declared type, an enum field its integer code.                   *)
FileTypeNames == <<"FILE", "ARCHIVE">>
FileVisibilityNames == <<"PUBLIC", "PRIVATE", "APPLICATION">>
ApplicationStateNames == <<"NEW", "NEW_SAVING", "SUBMITTED", "ACCEPTED", "RUNNING",
                           "FINISHED", "FAILED", "KILLED">>
FinalStatusNames == <<"UNDEFINED", "SUCCEEDED", "FAILED", "KILLED">>

\* Enum.Name(code)
EnumName(names, code) ==
    IF code.k = "int" /\ code.i + 1 \in DOMAIN names
    THEN S(names[code.i + 1])
    ELSE Error("ValueError", "Enum has no name defined for value", "", {})

\* the code a message constructor stores for an enum given by name or by code
EnumCode(names, v) ==
    IF v.k = "str" /\ \E i \in DOMAIN names : S(names[i]) = v
    THEN I((CHOOSE i \in DOMAIN names : S(names[i]) = v) - 1)
    ELSE v

\* a message constructor leaves a field given as None unset: it reads as the
\* default of its type
Unset(v, default) == IF v = None THEN default ELSE v

\* the message constructors, from the keyword arguments of Base.to_protobuf
ProtoMessage(cls, kw) ==
    CASE cls = "Resources" ->
           [k |-> "pb.Resources", memory |-> Unset(kw.memory, I(0)),
            vcores |-> Unset(kw.vcores, I(0))]
      [] cls = "File" ->
           [k |-> "pb.File", source |-> Unset(kw.source, P(<<>>)),
            type |-> EnumCode(FileTypeNames, Unset(kw.type, I(0))),
            visibility |-> EnumCode(FileVisibilityNames, Unset(kw.visibility, I(0))),
            size |-> Unset(kw.size, I(0)), timestamp |-> Unset(kw.timestamp, I(0))]
      [] cls = "Service" ->
           [k |-> "pb.Service", instances |-> Unset(kw.instances, I(0)),
            resources |-> kw.resources, files |-> kw.files, env |-> kw.env,
            commands |-> kw.commands, depends |-> kw.depends]
      [] cls = "Job" ->
           [k |-> "pb.Job", name |-> Unset(kw.name, S("")),
            queue |-> Unset(kw.queue, S("")), services |-> kw.services]
      [] cls = "ResourceUsageReport" ->
           [k |-> "pb.ResourceUsageReport",
            memory_seconds |-> Unset(kw.memory_seconds, I(0)),
            vcore_seconds |-> Unset(kw.vcore_seconds, I(0)),
            num_used_containers |-> Unset(kw.num_used_containers, I(0)),
            needed_resources |-> kw.needed_resources,
            reserved_resources |-> kw.reserved_resources,
            used_resources |-> kw.used_resources]
      [] cls = "ApplicationReport" ->
           [k |-> "pb.ApplicationReport", id |-> Unset(kw.id, S("")),
            name |-> Unset(kw.name, S("")), user |-> Unset(kw.user, S("")),
            queue |-> Unset(kw.queue, S("")), tags |-> kw.tags,
            host |-> Unset(kw.host, S("")), port |-> Unset(kw.port, I(0)),
            tracking_url |-> Unset(kw.tracking_url, S("")),
            state |-> EnumCode(ApplicationStateNames, Unset(kw.state, I(0))),
            final_status |-> EnumCode(FinalStatusNames, Unset(kw.final_status, I(0))),
            progress |-> Unset(kw.progress, F("0.0")), usage |-> kw.usage,
            diagnostics |-> Unset(kw.diagnostics, S("")),
            start_time |-> Unset(kw.start_time, I(0)),
            finish_time |-> Unset(kw.finish_time, I(0))]

(**************************** outbound conversion **************************)
EntityKinds == {"Resources", "File", "Service", "Job", "ResourceUsageReport",
                "ApplicationReport"}

SlotsOf(cls) ==
    CASE cls = "Resources" -> ResourcesSlots
      [] cls = "File" -> FileSlots
      [] cls = "Service" -> ServiceSlots
      [] cls = "Job" -> JobSlots
      [] cls = "ResourceUsageReport" -> UsageSlots
      [] cls = "ApplicationReport" -> ReportSlots

\* a conversion that does not validate the entity before it converts it
ValidateSkipped(self) == Ok

\* self._validate() as to_dict and to_protobuf call it
Validate(self) ==
    CASE self.k = "Resources" -> ResourcesValidate(self, FALSE)
      [] self.k = "File" -> FileValidate(self)
      [] self.k = "Service" -> ServiceValidate(self)
      [] self.k = "Job" -> JobValidate(self)
      [] self.k = "ResourceUsageReport" -> UsageValidate(self)
      [] self.k = "ApplicationReport" -> ReportValidate(self)

RECURSIVE to_dict(_), to_protobuf(_), _convert(_, _)

\* model.py:42  _convert(x, method), the method being to_dict or to_protobuf
_convert(x, method) ==
    IF x.k \in EntityKinds
    THEN IF method = "to_dict" THEN to_dict(x) ELSE to_protobuf(x)
    ELSE IF x.k = "list"
    THEN Collect([i \in DOMAIN x.l |-> _convert(x.l[i], method)], L)
    ELSE IF x.k = "dict"
    THEN Collect([key \in DOMAIN x.d |-> _convert(x.d[key], method)], D)
    ELSE IF x.k = "datetime" THEN MillisOf(x)
    ELSE x

\* model.py:190  with skip_nulls at its default, True
to_dict(self) ==
    LET slots == SlotsOf(self.k)
        kept == {slots[i] : i \in {j \in DOMAIN slots : self[slots[j]] # None}}
    IN  Try(Validate(self), LAMBDA ok :
            Collect([f \in kept |-> _convert(self[f], "to_dict")], D))

\* model.py:183
to_protobuf(self) ==
    LET slots == SlotsOf(self.k)
    IN  Try(Validate(self), LAMBDA ok :
        Let([f \in {slots[i] : i \in DOMAIN slots} |-> _convert(self[f], "to_protobuf")],
            LAMBDA kw : Try(FirstIn(kw), LAMBDA ok2 : ProtoMessage(self.k, kw))))

(**************************** inbound conversion ***************************)
WrongMessage(cls) == Error("TypeError", "Expected message of type", cls, {})

\* model.py:132 (Base.from_protobuf as Resources inherits it)
ResourcesFromProtobuf(msg) ==
    IF msg.k # "pb.Resources" THEN WrongMessage("Resources")
    ELSE ResourcesInit(msg.memory, msg.vcores)

\* model.py:305
FileFromProtobuf(msg) ==
    IF msg.k # "pb.File" THEN WrongMessage("File")
    ELSE Try(EnumName(FileTypeNames, msg.type), LAMBDA type :
         Try(EnumName(FileVisibilityNames, msg.visibility), LAMBDA visibility :
             FileInit(msg.source, type, visibility, msg.size, msg.timestamp)))

\* model.py:454
ServiceFromProtobuf(msg) ==
    Try(ResourcesFromProtobuf(msg.resources), LAMBDA resources :
    Try(Collect([d \in DOMAIN msg.files.d |-> FileFromProtobuf(msg.files.d[d])], D),
        LAMBDA files :
            ServiceInit(msg.commands, resources, msg.instances, files,
                        msg.env, msg.depends)))

\* model.py:517
JobFromProtobuf(msg) ==
    Try(Collect([n \in DOMAIN msg.services.d |->
                    ServiceFromProtobuf(msg.services.d[n])], D),
        LAMBDA services : JobInit(services, msg.name, msg.queue))

\* model.py:575
UsageFromProtobuf(msg) ==
    Let(<<ResourcesFromProtobuf(msg.needed_resources),
          ResourcesFromProtobuf(msg.reserved_resources),
          ResourcesFromProtobuf(msg.used_resources)>>, LAMBDA rs :
    Try(First(rs), LAMBDA ok :
        UsageInit(msg.memory_seconds, msg.vcore_seconds,
                  msg.num_used_containers, rs[1], rs[2], rs[3])))

\* model.py:646
ReportFromProtobuf(msg) ==
    Try(EnumName(ApplicationStateNames, msg.state), LAMBDA state :
    Try(EnumName(FinalStatusNames, msg.final_status), LAMBDA final :
    Try(UsageFromProtobuf(msg.usage), LAMBDA usage :
        ReportInit([f \in {ReportSlots[i] : i \in DOMAIN ReportSlots} |->
                      CASE f = "state" -> state
                        [] f = "final_status" -> final
                        [] f = "usage" -> usage
                        [] f = "start_time" -> _datetime_from_millis(msg.start_time)
                        [] f = "finish_time" -> _datetime_from_millis(msg.finish_time)
                        [] OTHER -> msg[f]]))))

\* E.from_protobuf for the class of the message
from_protobuf(msg) ==
    CASE msg.k = "pb.Resources" -> ResourcesFromProtobuf(msg)
      [] msg.k = "pb.File" -> FileFromProtobuf(msg)
      [] msg.k = "pb.Service" -> ServiceFromProtobuf(msg)
      [] msg.k = "pb.Job" -> JobFromProtobuf(msg)
      [] msg.k = "pb.ResourceUsageReport" -> UsageFromProtobuf(msg)
      [] msg.k = "pb.ApplicationReport" -> ReportFromProtobuf(msg)

(***************************** bounded inputs ******************************)
MaxInt == 2
MaxCommands == 2

IntVals == {I(n) : n \in -1..MaxInt}

ResourcesMappings ==
    UNION {[K -> IntVals \cup {S("x")}] :
             K \in SUBSET {"memory", "vcores", "bogus", "extra"}}

ResourcesArgs == IntVals \cup {S("x"), required}

\* every mapping that gives each key of keys a value of vals[key], or leaves it out
RECURSIVE Mappings(_, _)
Mappings(keys, vals) ==
    IF keys = {} THEN {EmptyMap}
    ELSE LET x == CHOOSE y \in keys : TRUE
             rest == Mappings(keys \ {x}, vals)
         IN  rest \cup {Merge(m, [h \in {x} |-> v]) : m \in rest, v \in vals[x]}

(* paths and sources of files *)
Prefixes == {<<>>, <<"/">>, <<"a", "/", "b", "/">>, <<"h", "d", "f", "s", ":", "/", "/", "h", "/", "d", "/">>}
Names == {<<>>, <<"x">>, <<"d", "a", "t", "a">>}
Exts == {<<>>, <<".", "z", "i", "p">>, <<".", "t", "a", "r", ".", "g", "z">>, <<".", "t", "g", "z">>, <<".", "t", "x", "t">>, <<".", "z", "i", "p">> \o <<".", "t", "g", "z">>}
Suffixes == {<<>>, <<"?", "q">>}

Sources ==
    {P(pre \o n \o e \o s) : pre \in Prefixes, n \in Names, e \in Exts, s \in Suffixes}

FewSources == {P(<<"a", "/", "b", "/">> \o <<"d", "a", "t", "a">> \o <<".", "t", "a", "r", ".", "g", "z">>), P(<<"h", "d", "f", "s", ":", "/", "/", "h", "/", "d", "/">> \o <<"x">>)}

FileMappings ==
    {D(m) : m \in Mappings({"source", "type", "visibility", "size", "timestamp", "bogus"},
                [source |-> FewSources \cup {I(1)},
                 type |-> {S("FILE"), S("ARCHIVE"), S("BAD")},
                 visibility |-> {S("PUBLIC"), S("BAD")},
                 size |-> {I(-1), I(MaxInt)},
                 timestamp |-> {I(0)},
                 bogus |-> {I(1)}])}

\* a file spec names its source by one of these
SpecHeads ==
    {[h \in {"file"} |-> s] : s \in Sources}
    \cup {[h \in {"archive"} |-> s] : s \in Sources}
    \cup {[h \in {"source"} |-> s] : s \in FewSources}
    \cup {[h \in {"source", "type"} |-> IF h = "source" THEN s ELSE ty] :
            s \in Sources, ty \in {S("archive"), S("FILE")}}
    \cup {[h \in {"file", "archive"} |-> s] : s \in FewSources}
    \cup {[h \in {"type"} |-> S("FILE")]}

SpecTails ==
    {EmptyMap, [h \in {"dest"} |-> P(<<"d">>)], [h \in {"bogus"} |-> I(1)],
     [h \in {"visibility"} |-> S("PRIVATE")],
     [h \in {"dest", "visibility"} |-> IF h = "dest" THEN P(<<"d">>) ELSE S("BAD")]}

FileSpecs == {D(Merge(h, tl)) : h \in SpecHeads, tl \in SpecTails}

(* mappings nested in a Service mapping *)
NestedResources ==
    {D([memory |-> m, vcores |-> v]) : m \in {I(-1), I(0), I(MaxInt)}, v \in {I(0), I(1)}}
    \cup {D([memory |-> I(1), vcores |-> I(1), bogus |-> I(2)]),
          D([memory |-> I(0), bogus |-> I(2)])}

GoodFile == D([source |-> P(<<"a", "/", "x">>)])

NestedFiles ==
    {D(EmptyMap),
     D([d \in {<<"x">>} |-> GoodFile]),
     D([d \in {<<"x">>} |-> D([source |-> P(<<"x">>), bogus |-> I(1)])]),
     D([d \in {<<"x">>} |-> D([source |-> P(<<"x">>), type |-> S("BAD")])]),
     L(<<D([file |-> P(<<"a", "/", "x">>)])>>),
     L(<<D([file |-> P(<<"a", "/", "x">>)]), D([archive |-> P(<<"b", "/", "x">>)])>>),
     L(<<D([file |-> P(<<"x">>), bogus |-> I(1)])>>),
     S("x")}

CommandLists == {L([i \in 1..n |-> S("run")]) : n \in 0..MaxCommands}

ServiceVals ==
    [commands |-> CommandLists \cup {S("x")},
     resources |-> NestedResources,
     instances |-> {I(-1), I(0), I(MaxInt)},
     files |-> NestedFiles,
     env |-> {D([key \in {"K"} |-> S("V")]), D([key \in {"K"} |-> I(1)])},
     depends |-> {L(<<S("key")>>)},
     bogus |-> {I(1)}]

ServiceMappings ==
    {D(m) : m \in Mappings({"commands", "resources", "instances", "files", "env",
                            "depends", "bogus"}, ServiceVals)}

(* the arguments of the Service constructor *)
ResourcesObjects ==
    {[k |-> "Resources", memory |-> m, vcores |-> v] :
        m \in {I(n) : n \in 0..MaxInt}, v \in {I(0), I(1)}}

FileObject ==
    [k |-> "File", source |-> P(<<"x">>), type |-> S("FILE"),
     visibility |-> S("APPLICATION"), size |-> I(0), timestamp |-> I(0)]

ServiceArgs ==
    [commands : CommandLists \cup {required, None},
     resources : ResourcesObjects \cup {required, None},
     instances : {I(-1), I(1), S("x")},
     files : {None, D([d \in {<<"x">>} |-> FileObject]), D([d \in {<<"x">>} |-> I(1)])},
     env : {None, D([key \in {"K"} |-> I(1)])},
     depends : {None}]

(* the messages of a Service *)
ResourcesMessages ==
    {[k |-> "pb.Resources", memory |-> m, vcores |-> v] :
        m \in {I(n) : n \in -1..MaxInt}, v \in {I(0), I(1)}}

FileMessages ==
    {[k |-> "pb.File", source |-> P(<<"x">>), type |-> I(ty), visibility |-> I(2),
      size |-> sz, timestamp |-> I(0)] : ty \in {0, 1}, sz \in {I(-1), I(0)}}

ServiceMessages ==
    [k : {"pb.Service"},
     instances : {I(-1), I(0), I(1)},
     resources : ResourcesMessages,
     files : {D(EmptyMap)} \cup {D([d \in {<<"x">>} |-> f]) : f \in FileMessages},
     env : {D(EmptyMap)},
     commands : CommandLists,
     depends : {L(<<>>)}]

(* mappings nested in a Job mapping *)
GoodService ==
    D([commands |-> L(<<S("run")>>), resources |-> D([memory |-> I(1), vcores |-> I(1)])])

NestedServices ==
    {GoodService,
     D([commands |-> L(<<S("run")>>), resources |-> D([memory |-> I(1), vcores |-> I(1)]),
        files |-> L(<<D([archive |-> P(<<"a", "/", "x", ".", "z", "i", "p">>)])>>),
        env |-> D([key \in {"K"} |-> S("V")]), instances |-> I(MaxInt)]),
     D([commands |-> L(<<S("run")>>), resources |-> D([memory |-> I(0), vcores |-> I(1)])]),
     D([commands |-> L(<<>>), resources |-> D([memory |-> I(1), vcores |-> I(1)])]),
     D([commands |-> L(<<S("run")>>), resources |-> D([memory |-> I(1), vcores |-> I(1)]),
        bogus |-> I(1)]),
     D([commands |-> L(<<S("run")>>),
        resources |-> D([memory |-> I(1), vcores |-> I(1), bogus |-> I(1)])])}

JobVals ==
    [name |-> {S("skein"), S("job"), I(3)},
     queue |-> {None, S(""), S("q")},
     services |-> {D(EmptyMap), S("x")}
                  \cup {D([n \in {"a"} |-> s]) : s \in NestedServices}
                  \cup {D([n \in {"a", "b"} |-> IF n = "a" THEN s1 ELSE s2]) :
                          s1 \in NestedServices, s2 \in NestedServices},
     bogus |-> {I(1)}]

JobMappings ==
    {D(m) : m \in Mappings({"name", "queue", "services", "bogus"}, JobVals)}

(* the reports: messages, and the mappings that carry the same values *)
UsageCounts == {I(-1), I(0), I(MaxInt)}

UsageResourcesMessages ==
    {[k |-> "pb.Resources", memory |-> I(-1), vcores |-> I(1)],
     [k |-> "pb.Resources", memory |-> I(1), vcores |-> I(-1)],
     [k |-> "pb.Resources", memory |-> I(0), vcores |-> I(0)]}

UsageMessages ==
    [k : {"pb.ResourceUsageReport"},
     memory_seconds : UsageCounts,
     vcore_seconds : UsageCounts,
     num_used_containers : UsageCounts,
     needed_resources : UsageResourcesMessages,
     reserved_resources : UsageResourcesMessages,
     used_resources : UsageResourcesMessages]

\* the mapping that carries the fields of a message under camelCase keys, a
\* nested message as a nested mapping, an enum by its integer code
RECURSIVE JsonOf(_)
JsonOf(msg) ==
    IF msg.k = "pb.Resources"
    THEN D([memory |-> msg.memory, vcores |-> msg.vcores])
    ELSE LET slots == IF msg.k = "pb.ResourceUsageReport" THEN UsageSlots ELSE ReportSlots
         IN  D([key \in CamelKeys(slots) |->
                  LET f == CHOOSE g \in {slots[i] : i \in DOMAIN slots} :
                               _to_camel_case(g) = key
                  IN  IF msg[f].k \in {"pb.Resources", "pb.ResourceUsageReport"}
                      THEN JsonOf(msg[f]) ELSE msg[f]])

\* the same mapping with the enums by name
JsonNamed(msg) ==
    D([JsonOf(msg).d EXCEPT
         !["state"] = EnumName(ApplicationStateNames, msg.state),
         !["finalStatus"] = EnumName(FinalStatusNames, msg.final_status)])

UsageMappings ==
    {JsonOf(msg) : msg \in UsageMessages}
    \cup {D(m) : m \in Mappings({"memorySeconds", "vcoreSeconds", "numUsedContainers",
                                 "neededResources", "reservedResources",
                                 "usedResources", "bogus"},
                   [memorySeconds |-> {I(-1), I(1)},
                    vcoreSeconds |-> {I(1)},
                    numUsedContainers |-> {I(-1)},
                    neededResources |-> {D([memory |-> I(-1), vcores |-> I(1), bogus |-> I(1)]),
                                         D([memory |-> I(1)])},
                    reservedResources |-> {D([memory |-> I(0), vcores |-> I(0)])},
                    usedResources |-> {D([memory |-> I(0), vcores |-> I(0)])},
                    bogus |-> {I(1)}])}

FewUsageMessages ==
    {msg \in UsageMessages :
        /\ msg.vcore_seconds = I(0)
        /\ msg.memory_seconds = I(MaxInt)
        /\ msg.num_used_containers \in {I(-1), I(MaxInt)}
        /\ msg.needed_resources = msg.used_resources
        /\ msg.reserved_resources = msg.used_resources
        /\ msg.used_resources.vcores \in {I(0), I(1)}}

ReportMessages ==
    [k : {"pb.ApplicationReport"},
     id : {S("application_1")}, name : {S("skein")}, user : {S("u")},
     queue : {S("default")},
     tags : {L(<<>>), L(<<S("t")>>)},
     host : {S(""), S("h")},
     port : {I(0)},
     tracking_url : {S("")},
     state : {I(0), I(4)},
     final_status : {I(0), I(1)},
     progress : {F("0.5")},
     usage : FewUsageMessages,
     diagnostics : {S("")},
     start_time : {I(0), I(1000 * MaxInt + 1)},
     finish_time : {I(1999)}]

Without(m, key) == [x \in DOMAIN m \ {key} |-> m[x]]

ReportMappings ==
    {JsonOf(msg) : msg \in ReportMessages}
    \cup {JsonNamed(msg) : msg \in ReportMessages}
    \cup {D(Without(JsonNamed(msg).d, key)) :
            msg \in ReportMessages, key \in {"host", "usage", "startTime", "state"}}
    \cup {D(Merge(JsonNamed(msg).d, [h \in {"bogus", "extra"} |-> I(1)])) :
            msg \in ReportMessages}

(******************************** actions **********************************)
(* A behaviour follows one value: it is constructed, then converted.       *)
Init ==
    /\ op = "init"
    /\ ctor = "none"
    /\ input = Nil
    /\ obj = Nil
    /\ out = Nil
    /\ back = Nil
    /\ writes = 0

Built(name, arg, result) ==
    /\ op' = name
    /\ ctor' = name
    /\ input' = arg
    /\ obj' = result
    /\ out' = Nil
    /\ back' = Nil
    /\ writes' = 0

DoResourcesInit ==
    /\ op = "init"
    /\ ctor = "none"
    /\ \E memory \in ResourcesArgs, vcores \in ResourcesArgs :
           Built("Resources", <<memory, vcores>>, ResourcesInit(memory, vcores))

DoResourcesFromDict ==
    /\ op = "init"
    /\ \E m \in ResourcesMappings :
           Built("Resources.from_dict", D(m), ResourcesFromDict(D(m)))

DoFileFromDict ==
    /\ op = "init"
    /\ \E o \in FileMappings : Built("File.from_dict", o, FileFromDict(o))

DoParseFileSpec ==
    /\ op = "init"
    /\ \E o \in FileSpecs : Built("File._parse_file_spec", o, _parse_file_spec(o))

DoServiceInit ==
    /\ op = "init"
    /\ ctor = "none"
    /\ \E a \in ServiceArgs :
           Built("Service", a, ServiceInit(a.commands, a.resources, a.instances,
                                           a.files, a.env, a.depends))

DoServiceFromDict ==
    /\ op = "init"
    /\ \E o \in ServiceMappings : Built("Service.from_dict", o, ServiceFromDict(o))

DoServiceFromProtobuf ==
    /\ op = "init"
    /\ \E msg \in ServiceMessages :
           Built("Service.from_protobuf", msg, ServiceFromProtobuf(msg))

DoJobFromDict ==
    /\ op = "init"
    /\ \E o \in JobMappings : Built("Job.from_dict", o, JobFromDict(o))

DoUsageFromDict ==
    /\ op = "init"
    /\ \E o \in UsageMappings :
           Built("ResourceUsageReport.from_dict", o, UsageFromDict(o))

DoUsageFromProtobuf ==
    /\ op = "init"
    /\ \E msg \in UsageMessages :
           Built("ResourceUsageReport.from_protobuf", msg, UsageFromProtobuf(msg))

DoReportFromDict ==
    /\ op = "init"
    /\ \E o \in ReportMappings :
           Built("ApplicationReport.from_dict", o, ReportFromDict(o))

DoReportFromProtobuf ==
    /\ op = "init"
    /\ \E msg \in ReportMessages :
           Built("ApplicationReport.from_protobuf", msg, ReportFromProtobuf(msg))

\* obj.to_dict() on the instance a constructor returned
DoToDict ==
    /\ obj.k \in EntityKinds
    /\ out = Nil
    /\ op' = "to_dict"
    /\ out' = to_dict(obj)
    /\ UNCHANGED <<ctor, input, obj, back, writes>>

\* obj.to_protobuf() on the instance a constructor returned
DoToProtobuf ==
    /\ obj.k \in EntityKinds
    /\ out = Nil
    /\ op' = "to_protobuf"
    /\ out' = to_protobuf(obj)
    /\ UNCHANGED <<ctor, input, obj, back, writes>>

\* E.from_protobuf(msg) on the message to_protobuf returned
DoFromProtobuf ==
    /\ op = "to_protobuf"
    /\ ~IsErr(out)
    /\ op' = "from_protobuf"
    /\ back' = from_protobuf(out)
    /\ UNCHANGED <<ctor, input, obj, out, writes>>

Next ==
    \/ DoResourcesInit
    \/ DoResourcesFromDict
    \/ DoFileFromDict
    \/ DoParseFileSpec
    \/ DoServiceInit
    \/ DoServiceFromDict
    \/ DoServiceFromProtobuf
    \/ DoJobFromDict
    \/ DoUsageFromDict
    \/ DoUsageFromProtobuf
    \/ DoReportFromDict
    \/ DoReportFromProtobuf
    \/ DoToDict
    \/ DoToProtobuf
    \/ DoFromProtobuf

Spec == Init /\ [][Next]_vars

(************************ reassignment of fields ***************************)
(* The entities are plain objects with __slots__: a caller can assign any  *)
(* value to a field of an entity, or of an entity nested in it, after its  *)
(* construction.  Nothing is validated by the assignment.                   *)
MaxWrites == 2

\* values a caller assigns to field f of an entity of the class kind
NewVals(kind, f) ==
    CASE kind = "Resources" -> {I(-1), I(0), I(1)}
      [] kind = "File" ->
           (CASE f = "source" -> {None}
             [] f = "type" -> {S("BAD"), S("ARCHIVE")}
             [] f = "visibility" -> {S("BAD")}
             [] f = "size" -> {I(-1)}
             [] f = "timestamp" -> {S("x")})
      [] kind = "Service" ->
           (CASE f = "commands" -> {L(<<>>), L(<<I(1)>>)}
             [] f = "resources" -> {None, [k |-> "Resources", memory |-> I(0), vcores |-> I(1)]}
             [] f = "instances" -> {I(-1), I(0)}
             [] f = "files" -> {D([d \in {<<"x">>} |-> I(1)])}
             [] f = "env" -> {D([key \in {"K"} |-> I(1)])}
             [] f = "depends" -> {None, L(<<S("key")>>)})
      [] kind = "Job" ->
           (CASE f = "name" -> {None, S("job")}
             [] f = "queue" -> {None, I(1)}
             [] f = "services" -> {D(EmptyMap), D([n \in {"a"} |-> I(1)])})
      [] kind = "ResourceUsageReport" ->
           (CASE f = "memory_seconds" -> {I(-1)}
             [] f = "vcore_seconds" -> {S("x")}
             [] f = "num_used_containers" -> {I(-1), I(0)}
             [] OTHER -> {None})
      [] kind = "ApplicationReport" ->
           (CASE f = "host" -> {None, I(1)}
             [] f = "port" -> {None, S("x")}
             [] f = "state" -> {I(4), S("KILLED")}
             [] f = "tags" -> {L(<<I(1)>>)}
             [] f = "progress" -> {I(1)}
             [] f = "start_time" -> {I(0)}
             [] f = "name" -> {I(1)}
             [] OTHER -> {None})

\* the entities that one assignment makes of x: to a field of x, of an entity
\* that is a field of x, or of an entity in a dict that is a field of x
RECURSIVE Reassigned(_)
Reassigned(x) ==
    LET slots == {SlotsOf(x.k)[i] : i \in DOMAIN SlotsOf(x.k)}
    IN  UNION {{[x EXCEPT ![f] = v] : v \in NewVals(x.k, f)} : f \in slots}
        \cup UNION {{[x EXCEPT ![f] = y] : y \in Reassigned(x[f])} :
                      f \in {g \in slots : x[g].k \in EntityKinds}}
        \cup UNION {UNION {{[x EXCEPT ![f] = D([x[f].d EXCEPT ![d] = y])] :
                              y \in Reassigned(x[f].d[d])} :
                             d \in {e \in DOMAIN x[f].d : x[f].d[e].k \in EntityKinds}} :
                      f \in {g \in slots : x[g].k = "dict"}}

StartService ==
    D([commands |-> L(<<S("run")>>),
       resources |-> D([memory |-> I(1), vcores |-> I(1)]),
       files |-> D([d \in {<<"x">>} |-> GoodFile])])

StartJob ==
    D([name |-> S("skein"), queue |-> S(""),
       services |-> D([n \in {"a"} |-> StartService])])

StartUsage ==
    [k |-> "pb.ResourceUsageReport", memory_seconds |-> I(MaxInt),
     vcore_seconds |-> I(0), num_used_containers |-> I(MaxInt),
     needed_resources |-> [k |-> "pb.Resources", memory |-> I(0), vcores |-> I(0)],
     reserved_resources |-> [k |-> "pb.Resources", memory |-> I(0), vcores |-> I(0)],
     used_resources |-> [k |-> "pb.Resources", memory |-> I(0), vcores |-> I(0)]]

StartReport ==
    [k |-> "pb.ApplicationReport", id |-> S("application_1"), name |-> S("skein"),
     user |-> S("u"), queue |-> S("default"), tags |-> L(<<S("t")>>), host |-> S("h"),
     port |-> I(0), tracking_url |-> S(""), state |-> I(4), final_status |-> I(0),
     progress |-> F("0.5"), usage |-> StartUsage, diagnostics |-> S(""),
     start_time |-> I(0), finish_time |-> I(1999)]

\* one valid entity of each class, from its constructor
DoBuild ==
    /\ op = "init"
    /\ \/ Built("Resources", <<I(1), I(1)>>, ResourcesInit(I(1), I(1)))
       \/ Built("File.from_dict", GoodFile, FileFromDict(GoodFile))
       \/ Built("Service.from_dict", StartService, ServiceFromDict(StartService))
       \/ Built("Job.from_dict", StartJob, JobFromDict(StartJob))
       \/ Built("ResourceUsageReport.from_protobuf", StartUsage,
                UsageFromProtobuf(StartUsage))
       \/ Built("ApplicationReport.from_protobuf", StartReport,
                ReportFromProtobuf(StartReport))

\* x.f = v on the entity or on an entity nested in it
DoReassign ==
    /\ obj.k \in EntityKinds
    /\ out = Nil
    /\ writes < MaxWrites
    /\ \E y \in Reassigned(obj) :
           /\ obj' = y
           /\ op' = "reassign"
           /\ writes' = writes + 1
    /\ UNCHANGED <<ctor, input, out, back>>

NextReassign ==
    \/ DoBuild
    \/ DoReassign
    \/ DoToDict
    \/ DoToProtobuf

SpecReassign == Init /\ [][NextReassign]_vars

(********************************* claims **********************************)
FromDictOps == {"Resources.from_dict", "File.from_dict", "Service.from_dict",
                "Job.from_dict", "ResourceUsageReport.from_dict",
                "ApplicationReport.from_dict"}

\* a mapping in canonical form: a nested entity is a nested mapping (no list
\* of file specs stands for the files of a Service)
RECURSIVE Canonical(_)
Canonical(v) ==
    /\ v.k # "list" \/ \A i \in DOMAIN v.l : v.l[i].k # "dict"
    /\ v.k = "dict" => \A key \in DOMAIN v.d : Canonical(v.d[key])

\* got carries what given carries: the same value, or for a mapping every
\* key of given whose value is not null, with a value that carries given's
RECURSIVE Carries(_, _)
Carries(got, given) ==
    IF given.k = "dict"
    THEN /\ got.k = "dict"
         /\ \A key \in DOMAIN given.d :
                given.d[key] # None =>
                    key \in DOMAIN got.d /\ Carries(got.d[key], given.d[key])
    ELSE got = given

\* C1: E.from_dict(m).to_dict() reproduces m restricted to its non-null,
\* non-default fields: every key of m with such a value is in the output
\* under the same key with the same value, for every entity type E.
C1_MappingRoundTrip ==
    (op = "to_dict" /\ ctor \in FromDictOps /\ Canonical(input))
        => (~IsErr(out) /\ Carries(out, input))

\* C2: E.from_protobuf(E.from_dict(m).to_protobuf()) equals E.from_dict(m),
\* field by field, also when m leaves a nullable or defaulted field unset.
C2_WireRoundTrip ==
    (op = "from_protobuf" /\ ctor \in FromDictOps) => back = obj


(* the key sets of the mapping forms *)
AllowedKeys(cls) ==
    CASE cls = "Resources" -> {"memory", "vcores"}
      [] cls = "File" -> {"source", "type", "visibility", "size", "timestamp"}
      [] cls = "Service" -> {"commands", "resources", "instances", "files", "env", "depends"}
      [] cls = "Job" -> {"name", "queue", "services"}
      [] cls = "ResourceUsageReport" ->
           {"memorySeconds", "vcoreSeconds", "numUsedContainers", "neededResources",
            "reservedResources", "usedResources"}
      [] cls = "ApplicationReport" ->
           {"id", "name", "user", "queue", "tags", "host", "port", "trackingUrl",
            "state", "finalStatus", "progress", "usage", "diagnostics", "startTime",
            "finishTime"}

ClassOf(name) ==
    CASE name = "Resources.from_dict" -> "Resources"
      [] name = "File.from_dict" -> "File"
      [] name = "Service.from_dict" -> "Service"
      [] name = "Job.from_dict" -> "Job"
      [] name = "ResourceUsageReport.from_dict" -> "ResourceUsageReport"
      [] name = "ApplicationReport.from_dict" -> "ApplicationReport"

Unknown(cls, m) == IF m.k = "dict" THEN DOMAIN m.d \ AllowedKeys(cls) ELSE {}

UnknownKeysError(cls, m) ==
    [k |-> "error", err |-> "ValueError", msg |-> "Unknown extra keys",
     field |-> cls, keys |-> Unknown(cls, m)]

Entry(m, key) == IF m.k = "dict" /\ key \in DOMAIN m.d THEN m.d[key] ELSE None

\* the nested mappings of a mapping of class cls, each with its class
Nested(cls, m) ==
    CASE cls = "Service" ->
           (IF Entry(m, "resources").k = "dict"
            THEN {<<"Resources", Entry(m, "resources")>>} ELSE {})
           \cup (IF Entry(m, "files").k = "dict"
                 THEN {<<"File", Entry(m, "files").d[d]>> : d \in DOMAIN Entry(m, "files").d}
                 ELSE {})
      [] cls = "Job" ->
           IF Entry(m, "services").k = "dict"
           THEN {<<"Service", Entry(m, "services").d[n]>> : n \in DOMAIN Entry(m, "services").d}
           ELSE {}
      [] OTHER -> {}

\* the nested mapping that from_dict converts first has unknown keys: the
\* resources of a Service; the files or the services when each has some
FirstNestedUnknown(cls, m) ==
    IF cls = "Service" /\ Unknown("Resources", Entry(m, "resources")) # {}
    THEN {UnknownKeysError("Resources", Entry(m, "resources"))}
    ELSE IF /\ Nested(cls, m) # {}
            /\ \A n \in Nested(cls, m) : Unknown(n[1], n[2]) # {}
    THEN {UnknownKeysError(n[1], n[2]) : n \in Nested(cls, m)}
    ELSE {}

ValidJobMapping(m) ==
    /\ m.k = "dict"
    /\ Unknown("Job", m) = {}
    /\ Entry(m, "name").k \in {"str", "none"}
    /\ Entry(m, "queue").k \in {"str", "none"}
    /\ Entry(m, "services").k = "dict"
    /\ DOMAIN Entry(m, "services").d # {}
    /\ \A n \in DOMAIN Entry(m, "services").d :
           ~IsErr(ServiceFromDict(Entry(m, "services").d[n]))

\* C4: a key absent from the mapping falls back to the constructor default:
\* Job.from_dict of a valid mapping without 'name' or 'queue' succeeds with
\* name 'skein' and queue ''; Service.from_dict without 'instances', 'files',
\* 'env', 'depends' gives 1, {}, {} and [].
C4_Defaults ==
    /\ (ctor = "Job.from_dict" /\ op = ctor /\ ValidJobMapping(input)) =>
          /\ ~IsErr(obj)
          /\ "name" \notin DOMAIN input.d => obj.name = S("skein")
          /\ "queue" \notin DOMAIN input.d => obj.queue = S("")
    /\ (ctor = "Service.from_dict" /\ op = ctor /\ ~IsErr(obj)) =>
          /\ "instances" \notin DOMAIN input.d => obj.instances = I(1)
          /\ "files" \notin DOMAIN input.d => obj.files = D(EmptyMap)
          /\ "env" \notin DOMAIN input.d => obj.env = D(EmptyMap)
          /\ "depends" \notin DOMAIN input.d => obj.depends = L(<<>>)

\* C5: Job.from_dict of a mapping whose 'services' is an empty mapping, with
\* 'name' and 'queue' given or not, fails with the error "There must be at
\* least one service" and with no other error.
C5_EmptyServices ==
    (/\ ctor = "Job.from_dict" /\ op = ctor
     /\ Unknown("Job", input) = {}
     /\ Entry(input, "name").k \in {"str", "none"}
     /\ Entry(input, "queue").k \in {"str", "none"}
     /\ Entry(input, "services").k = "dict"
     /\ DOMAIN Entry(input, "services").d = {})
        => (IsErr(obj) /\ obj.msg = "There must be at least one service")

IsInt(x, min) == x.k = "int" /\ x.i >= min

\* memory and vcores are integers and one of them is less than 1
BelowRequest(memory, vcores) ==
    /\ memory.k = "int" /\ vcores.k = "int"
    /\ (memory.i < 1 \/ vcores.i < 1)

BoundedIntError(e) ==
    /\ e.k = "error" /\ e.err = "ValueError" /\ e.msg = "must be >="
    /\ e.field \in {"memory", "vcores"}

C7_ReportFromDict ==
    ctor = "ApplicationReport.from_dict" =>
        \A w \in ReportMessages :
            (input = JsonOf(w) /\ ~IsErr(ReportFromProtobuf(w)))
                => (~IsErr(obj) /\ obj = ReportFromProtobuf(w))

\* a mapping of a usage report: the six keys, integer counts, and nested
\* mappings of an integer memory and vcores
UsageMapping(m) ==
    /\ m.k = "dict"
    /\ DOMAIN m.d = AllowedKeys("ResourceUsageReport")
    /\ \A key \in {"memorySeconds", "vcoreSeconds", "numUsedContainers"} :
           m.d[key].k = "int"
    /\ \A key \in {"neededResources", "reservedResources", "usedResources"} :
           /\ m.d[key].k = "dict"
           /\ DOMAIN m.d[key].d = {"memory", "vcores"}
           /\ m.d[key].d.memory.k = "int"
           /\ m.d[key].d.vcores.k = "int"

Clamped(x) == IF x.i < 0 THEN I(0) ELSE x

\* C8: ResourceUsageReport.from_dict of a mapping with negative memorySeconds,
\* vcoreSeconds, numUsedContainers or nested memory or vcores succeeds, with
\* each negative value replaced by 0; from_protobuf never replaces a negative
\* value of a message by 0.
C8_Clamp ==
    /\ (ctor = "ResourceUsageReport.from_dict" /\ UsageMapping(input)) =>
          /\ ~IsErr(obj)
          /\ obj.memory_seconds = Clamped(input.d.memorySeconds)
          /\ obj.vcore_seconds = Clamped(input.d.vcoreSeconds)
          /\ obj.num_used_containers = Clamped(input.d.numUsedContainers)
          /\ \A f \in {"needed_resources", "reserved_resources", "used_resources"} :
               /\ obj[f].memory = Clamped(input.d[_to_camel_case(f)].d.memory)
               /\ obj[f].vcores = Clamped(input.d[_to_camel_case(f)].d.vcores)
    /\ (ctor = "ResourceUsageReport.from_protobuf" /\ ~IsErr(obj)) =>
          /\ \A f \in {"memory_seconds", "vcore_seconds", "num_used_containers"} :
               obj[f] = input[f]
          /\ \A f \in {"needed_resources", "reserved_resources", "used_resources"} :
               /\ obj[f].memory = input[f].memory
               /\ obj[f].vcores = input[f].vcores

\* the final segment of the path of a source pre \o n \o e \o s: what lies
\* between the directories pre and the query s
Segments(c) ==
    {n \o e : n \in Names, e \in Exts} \cap
    {seg \in {Drop(Take(c, Len(c) - Len(s)), Len(pre)) : pre \in Prefixes, s \in Suffixes} :
        \E pre \in Prefixes, s \in Suffixes : c = pre \o seg \o s}

StripOne(seg, ext) ==
    IF Len(seg) >= Len(ext) /\ SubSeq(seg, Len(seg) - Len(ext) + 1, Len(seg)) = ext
    THEN SubSeq(seg, 1, Len(seg) - Len(ext)) ELSE seg

\* the segment without its trailing '.zip', '.tar.gz' or '.tgz'
Stripped(seg) ==
    StripOne(StripOne(StripOne(seg, <<".", "z", "i", "p">>),
                      <<".", "t", "a", "r", ".", "g", "z">>),
             <<".", "t", "g", "z">>)

\* a shorthand spec by key 'file' or 'archive', of known keys and a valid visibility
Shorthand(o, key) ==
    /\ key \in DOMAIN o.d
    /\ DOMAIN o.d \subseteq {key, "dest", "visibility", "size", "timestamp"}
    /\ "visibility" \in DOMAIN o.d
         => o.d.visibility \in {S("APPLICATION"), S("PUBLIC"), S("PRIVATE")}

\* C9: for a file spec by key 'file' or 'archive', _parse_file_spec returns a
\* File of type FILE for 'file' and ARCHIVE for 'archive'; without a 'dest'
\* key the dest is the final segment of the path of the source, kept whole for
\* FILE and without one trailing '.zip', '.tar.gz' or '.tgz' for ARCHIVE; a
\* 'dest' that is given is returned unchanged.
C9_DestDerivation ==
    ctor = "File._parse_file_spec" =>
        \A key \in {"file", "archive"} :
            Shorthand(input, key) =>
                /\ obj.k = "pair"
                /\ obj.file.type = (IF key = "file" THEN S("FILE") ELSE S("ARCHIVE"))
                /\ "dest" \in DOMAIN input.d => obj.dest = input.d.dest
                /\ "dest" \notin DOMAIN input.d =>
                      /\ obj.dest.k = "str"
                      /\ Segments(input.d[key].c) # {}
                      /\ \A seg \in Segments(input.d[key].c) :
                            obj.dest.c = (IF key = "file" THEN seg ELSE Stripped(seg))

C9_Witness ==
    /\ ctor = "File._parse_file_spec"
    /\ input = D([archive |-> P(<<"a", "/", "b", "/", "d", "a", "t", "a",
                                  ".", "t", "a", "r", ".", "g", "z">>)])
    /\ obj.k = "pair"
    /\ obj.dest = P(<<"d", "a", "t", "a">>)
    /\ obj.file.type = S("ARCHIVE")

\* the fields of a Service other than commands are valid: those of a mapping
\* when it builds with one command in place of none
OtherwiseValidArgs(a) ==
    /\ a.resources.k = "Resources"
    /\ IsInt(a.resources.memory, 1) /\ IsInt(a.resources.vcores, 1)
    /\ IsInt(a.instances, 0)
    /\ a.files.k = "none" \/ (a.files.k = "dict" /\ \A d \in DOMAIN a.files.d :
                                                      a.files.d[d].k = "File")
    /\ a.env.k = "none"
    /\ a.depends.k = "none"

OtherwiseValidMapping(m) ==
    /\ m.k = "dict"
    /\ "commands" \in DOMAIN m.d
    /\ ServiceFromDict(D([m.d EXCEPT !.commands = L(<<S("run")>>)])).k = "Service"

NoCommands(x) == x.k = "Service" /\ x.commands = L(<<>>)

\* C10: a Service of no commands and otherwise valid fields, by constructor
\* or by from_dict, fails with the error "There must be at least one
\* command", and no Service built by any path has no commands, nor a Service
\* of a Job.
C10_EmptyCommands ==
    /\ (ctor = "Service" /\ input.commands = L(<<>>) /\ OtherwiseValidArgs(input)) =>
          (IsErr(obj) /\ obj.err = "ValueError"
           /\ obj.msg = "There must be at least one command")
    /\ (ctor = "Service.from_dict" /\ Entry(input, "commands") = L(<<>>)
        /\ OtherwiseValidMapping(input)) =>
          (IsErr(obj) /\ obj.err = "ValueError"
           /\ obj.msg = "There must be at least one command")
    /\ \A x \in {obj, back} :
          /\ ~NoCommands(x)
          /\ x.k = "Job" => \A n \in DOMAIN x.services.d : ~NoCommands(x.services.d[n])

C10_Witness ==
    /\ ctor = "Service.from_dict"
    /\ input = D([commands |-> L(<<>>),
                  resources |-> D([memory |-> I(MaxInt), vcores |-> I(1)])])
    /\ obj = [k |-> "error", err |-> "ValueError",
              msg |-> "There must be at least one command",
              field |-> "commands", keys |-> {}]

\* C11: a file spec by key 'file' or 'archive' without a 'dest' key whose
\* source has a path with an empty final segment (a directory, 'a/b/' or '/')
\* fails to parse, and no pair with a derived dest that is empty is returned.
C11_DirectoryRejected ==
    ctor = "File._parse_file_spec" =>
        \A key \in {"file", "archive"} :
            (Shorthand(input, key) /\ "dest" \notin DOMAIN input.d) =>
                /\ Segments(input.d[key].c) = {<<>>} => IsErr(obj)
                /\ obj.k = "pair" => obj.dest # P(<<>>)

\* C12: the File that _parse_file_spec returns for a spec with key 'file',
\* 'archive' or 'source' has that key's value as its source, with its scheme
\* and host, whether the dest is given or derived.
C12_SourceKept ==
    (ctor = "File._parse_file_spec" /\ obj.k = "pair") =>
        \A key \in {"file", "archive", "source"} :
            key \in DOMAIN input.d => obj.file.source = input.d[key]

(* the validation rules of the entities, applied to an entity as it is now *)
IsStr(v) == v.k = "str"
IsStrList(v) == v.k = "list" /\ \A i \in DOMAIN v.l : IsStr(v.l[i])

RuleResources(r, min) ==
    r.k = "Resources" /\ IsInt(r.memory, min) /\ IsInt(r.vcores, min)

RuleFile(f) ==
    /\ f.k = "File"
    /\ IsStr(f.source)
    /\ f.type \in {S("FILE"), S("ARCHIVE")}
    /\ f.visibility \in {S("APPLICATION"), S("PUBLIC"), S("PRIVATE")}
    /\ IsInt(f.size, 0) /\ IsInt(f.timestamp, 0)

RuleService(s) ==
    /\ s.k = "Service"
    /\ IsStrList(s.commands) /\ Len(s.commands.l) > 0
    /\ RuleResources(s.resources, 1)
    /\ IsInt(s.instances, 0)
    /\ s.files.k = "dict" /\ \A d \in DOMAIN s.files.d : RuleFile(s.files.d[d])
    /\ s.env.k = "dict" /\ \A key \in DOMAIN s.env.d : IsStr(s.env.d[key])
    /\ IsStrList(s.depends)

RuleJob(j) ==
    /\ j.k = "Job"
    /\ IsStr(j.name)
    /\ j.queue.k \in {"str", "none"}
    /\ j.services.k = "dict" /\ DOMAIN j.services.d # {}
    /\ \A n \in DOMAIN j.services.d : RuleService(j.services.d[n])

RuleUsage(u) ==
    /\ u.k = "ResourceUsageReport"
    /\ IsInt(u.memory_seconds, 0) /\ IsInt(u.vcore_seconds, 0)
    /\ IsInt(u.num_used_containers, 0)
    /\ RuleResources(u.needed_resources, 0)
    /\ RuleResources(u.reserved_resources, 0)
    /\ RuleResources(u.used_resources, 0)

RuleReport(r) ==
    /\ r.k = "ApplicationReport"
    /\ IsStr(r.id) /\ IsStr(r.name) /\ IsStr(r.user) /\ IsStr(r.queue)
    /\ IsStrList(r.tags)
    /\ r.host.k \in {"str", "none"}
    /\ r.port.k \in {"int", "none"}
    /\ r.tracking_url.k \in {"str", "none"}
    /\ IsStr(r.state) /\ IsStr(r.final_status)
    /\ r.progress.k = "float"
    /\ RuleUsage(r.usage)
    /\ r.diagnostics.k \in {"str", "none"}
    /\ r.start_time.k = "datetime" /\ r.finish_time.k = "datetime"

Satisfies(x) ==
    CASE x.k = "Resources" -> RuleResources(x, 0)
      [] x.k = "File" -> RuleFile(x)
      [] x.k = "Service" -> RuleService(x)
      [] x.k = "Job" -> RuleJob(x)
      [] x.k = "ResourceUsageReport" -> RuleUsage(x)
      [] x.k = "ApplicationReport" -> RuleReport(x)

\* C13: after construction and any reassignments of fields of the entity or
\* of the entities nested in it, to_dict and to_protobuf give output only if
\* the entity and every nested entity satisfy their validation rules now (the
\* resources of a Service those of a request); otherwise they raise.
C13_OutboundValidation ==
    (op \in {"to_dict", "to_protobuf"} /\ ~IsErr(out)) => Satisfies(obj)

\* a Job whose nested Service was given resources of memory 0 raises
C13_Witness ==
    /\ op = "to_dict"
    /\ writes > 0
    /\ obj.k = "Job"
    /\ obj.services.k = "dict" /\ "a" \in DOMAIN obj.services.d
    /\ obj.services.d["a"].k = "Service"
    /\ obj.services.d["a"].resources.k = "Resources"
    /\ obj.services.d["a"].resources.memory = I(0)
    /\ IsErr(out) /\ out.field = "memory"

=============================================================================
